---- MODULE Spec2Model ----
(***************************************************************************)
(* Model of the multi-provider mailer: the SimpleEmailService orchestrator *)
(* (src/src/SimpleFactory.ts) and its two provider adapters,               *)
(* NodemailerProvider and SendGridProvider (src/unnamed/part_001).         *)
(*                                                                         *)
(* Every asynchronous method is cut at its awaits: one action is the code  *)
(* that runs between two awaits.  What the network answers (a connection   *)
(* check, a transport send), how long it takes and whether a template file *)
(* can be read and rendered are inputs, drawn with \E.                     *)
(***************************************************************************)
EXTENDS Integers, Sequences, FiniteSets, TLC

\* ------------------------------------------------------------------ bounds
\* Calls (orchestrator or direct adapter calls) started in one behaviour.
MaxCalls == 3
\* Priorities a configuration may declare: 1..MaxConfigPriority.
MaxConfigPriority == 2
\* Elapsed milliseconds an attempt may take: none, or MaxDuration.
MaxDuration == 1
\* Calls made on standalone adapters in one behaviour.
MaxDirectCalls == 5
\* Messages in one sendBulkEmails call: 0..MaxBulk.
MaxBulk == 3
\* Calls made by the two callers whose calls may overlap.
MaxConcCalls == 2

\* ------------------------------------------------------- program constants
NodemailerPriority == 1
SendGridPriority == 2
\* `successRate > 95` in getHealthStatus.
HealthyPercent == 95
\* `rateLimit` of NodemailerProvider and of SendGridProvider (emails per second).
NodemailerRateLimit == 10
SendGridRateLimit == 100

Kinds == {"nodemailer", "sendgrid"}
\* Callers that may have a call in flight on the one orchestrator.
Callers == {1, 2}
\* The sequential specification uses a single caller.
SeqCallers == {1}
\* Owner 0 is an adapter constructed directly, outside any orchestrator.
Owners == Callers \cup {0}
\* An adapter instance: the kind and the call that constructed it.
Inst == Kinds \X Owners
ConfigPriorities == 1..MaxConfigPriority
Durations == {0, MaxDuration}
TransportError == "transport error"

VARIABLES
    config,       \* SimpleEmailConfig, fixed at construction
    providers,    \* SimpleEmailService.providers: sequence of instances
    initialized,  \* SimpleEmailService.initialized
    adapters,     \* instance -> adapter object state
    call,         \* caller -> the orchestrator call it has in flight (or last made)
    direct,       \* the last call made directly on a standalone adapter
    ncalls,       \* calls started so far
    everFailed    \* history: an initialize() has failed with the no-providers error

vars == <<config, providers, initialized, adapters, call, direct, ncalls, everFailed>>

\* ------------------------------------------------------------ adapter state
KindOf(inst) == inst[1]

\* IMailProvider.name
ProviderName(kind) == kind

\* IMailProvider.priority: a constant of the class, not of the configuration.
ProviderPriority(kind) ==
    IF kind = "nodemailer" THEN NodemailerPriority ELSE SendGridPriority

\* IMailProvider.rateLimit
ProviderRateLimit(kind) ==
    IF kind = "nodemailer" THEN NodemailerRateLimit ELSE SendGridRateLimit

ZeroMetrics ==
    [sentToday |-> 0, sentThisHour |-> 0, errorCount |-> 0,
     successCount |-> 0, lastError |-> ""]

\* An instance that has not been constructed (or is no longer referenced).
NoAdapter ==
    [exists |-> FALSE, transporter |-> "undefined", isInitialized |-> FALSE,
     metrics |-> ZeroMetrics, attempted |-> 0]

\* The object right after `new NodemailerProvider(logger)` / `new SendGridProvider(logger)`.
NewAdapter ==
    [exists |-> TRUE, transporter |-> "undefined", isInitialized |-> FALSE,
     metrics |-> ZeroMetrics, attempted |-> 0]

\* A result as the orchestrator's callers see it (EmailResult).
NoResult == [success |-> FALSE, provider |-> "", error |-> "", duration |-> 0]


\* The connection parameters the orchestrator hands to an adapter's initialize.
\* Of the connection parameters only their presence matters: `credentials`
\* stands for host, user and password of the SMTP adapter, `apiKey` for the
\* key of the API adapter.
ConnectionConfig(kind) ==
    IF kind = "nodemailer"
    THEN [apiKey |-> FALSE, credentials |-> config.nodemailerCredentials]
    ELSE [apiKey |-> config.sendgridApiKey, credentials |-> FALSE]

\* The connection parameters a user may hand to a standalone adapter.
ConnectionConfigs(kind) ==
    IF kind = "nodemailer"
    THEN [apiKey : {FALSE}, credentials : BOOLEAN]
    ELSE [apiKey : BOOLEAN, credentials : {FALSE}]

\* NodemailerProvider.initialize / SendGridProvider.initialize: the adapter
\* afterwards, and whether the call raised.  The SMTP adapter creates its
\* transport whatever the configuration holds; the API adapter raises when the
\* key is absent, before it marks itself initialized.
AdapterInitialize(kind, a, cfg) ==
    IF kind = "nodemailer"
    THEN [raised |-> FALSE, adapter |-> [a EXCEPT !.transporter = "open"]]
    ELSE IF ~cfg.apiKey
         THEN [raised |-> TRUE, adapter |-> a]
         ELSE [raised |-> FALSE, adapter |-> [a EXCEPT !.isInitialized = TRUE]]

\* The guard at the head of sendEmail and verifyConnection: no transport handle.
AdapterNotReady(kind, a) ==
    IF kind = "nodemailer" THEN a.transporter = "undefined" ELSE ~a.isInitialized

\* verifyConnection: false without a handle, else what the network check answers.
VerifyConnection(kind, a, netOk) ==
    IF AdapterNotReady(kind, a) THEN FALSE ELSE netOk

\* Variant: a success is not counted in the hourly counter.
UpdateMetricsNoHourly(m, success, error) ==
    IF success
    THEN [m EXCEPT !.successCount = @ + 1, !.sentToday = @ + 1]
    ELSE [m EXCEPT !.errorCount = @ + 1,
                   !.lastError = IF error = "" THEN "Unknown error" ELSE error]

\* updateMetrics(success, duration, error)
UpdateMetrics(m, success, error) ==
    IF success
    THEN [m EXCEPT !.successCount = @ + 1, !.sentToday = @ + 1, !.sentThisHour = @ + 1]
    ELSE [m EXCEPT !.errorCount = @ + 1,
                   !.lastError = IF error = "" THEN "Unknown error" ELSE error]

\* The EmailResult an adapter's sendEmail returns once its transport has answered.
AdapterSendResult(kind, outcome, d) ==
    IF outcome = "ok"
    THEN [success |-> TRUE, provider |-> ProviderName(kind), error |-> "", duration |-> d]
    ELSE [success |-> FALSE, provider |-> ProviderName(kind), error |-> TransportError,
          duration |-> d]

\* The adapter after one sendEmail whose transport answered `outcome`.
AdapterAfterSend(a, outcome) ==
    [a EXCEPT !.metrics = UpdateMetrics(@, outcome = "ok", TransportError),
              !.attempted = @ + 1]

\* What a transport can answer: a closed SMTP pool delivers nothing.
TransportOutcomes(a) ==
    IF a.transporter = "closed" THEN {"fail"} ELSE {"ok", "fail"}

\* The message of the guard at the head of sendEmail and sendBulkEmails.
NotInitializedError(kind) ==
    IF kind = "nodemailer" THEN "Nodemailer provider not initialized"
    ELSE "SendGrid provider not initialized"

\* The catch of NodemailerProvider.sendBulkEmails: a raise of sendEmail becomes
\* that message's failed result.
BulkCaughtResult(kind, error) ==
    [success |-> FALSE, provider |-> ProviderName(kind), error |-> error, duration |-> 0]

\* Variant: the result is put at the front of the array.
BulkUnshift(results, result) == <<result>> \o results

\* `results.push(result)` in NodemailerProvider.sendBulkEmails.
BulkPush(results, result) == Append(results, result)

\* SendGridProvider.sendBulkEmails after `sgMail.send(mailData)` has answered
\* for n messages: one success per response (the library answers an array
\* with one response per message), or the same failure for every message.
SendGridBulkResults(kind, n, outcome, d) ==
    [k \in 1..n |->
        IF outcome = "ok"
        THEN [success |-> TRUE, provider |-> ProviderName(kind), error |-> "",
              duration |-> d \div n]
        ELSE [success |-> FALSE, provider |-> ProviderName(kind),
              error |-> TransportError, duration |-> 0]]

\* The metrics after that call: updateMetrics(true, ...) once per response; the
\* catch records nothing.
RECURSIVE MetricsAfterSuccesses(_, _)
MetricsAfterSuccesses(m, n) ==
    IF n = 0 THEN m ELSE MetricsAfterSuccesses(UpdateMetrics(m, TRUE, ""), n - 1)

SendGridBulkMetrics(m, n, outcome) ==
    IF outcome = "ok" THEN MetricsAfterSuccesses(m, n) ELSE m

\* successCount / (successCount + errorCount) * 100, 0 without attempts: its
\* integer part.
SuccessRate(m) ==
    IF m.successCount + m.errorCount > 0
    THEN (m.successCount * 100) \div (m.successCount + m.errorCount)
    ELSE 0

\* `successRate > pct`, exactly (no rounding to the integer part).
RateExceeds(m, pct) ==
    /\ m.successCount + m.errorCount > 0
    /\ m.successCount * 100 > pct * (m.successCount + m.errorCount)

\* Whether getHealthStatus calls verifyConnection: the SMTP adapter awaits it,
\* the API adapter reads its isInitialized flag instead.
HealthCallsVerify(kind) == kind = "nodemailer"

\* getHealthStatus(): the snapshot, given what the network answers a check.
HealthStatus(kind, a, netOk) ==
    [isHealthy |-> /\ IF HealthCallsVerify(kind)
                      THEN VerifyConnection(kind, a, netOk)
                      ELSE a.isInitialized
                   /\ RateExceeds(a.metrics, HealthyPercent),
     successRate |-> SuccessRate(a.metrics),
     errorCount |-> a.metrics.errorCount,
     lastError |-> a.metrics.lastError,
     sentToday |-> a.metrics.sentToday,
     sentThisHour |-> a.metrics.sentThisHour,
     queueSize |-> 0]

\* shutdown(): the SMTP adapter closes its pool and keeps the reference; the
\* API adapter clears its flag.
AdapterShutdown(kind, a) ==
    IF kind = "nodemailer"
    THEN IF a.transporter # "undefined" THEN [a EXCEPT !.transporter = "closed"] ELSE a
    ELSE [a EXCEPT !.isInitialized = FALSE]

\* ------------------------------------------------------------- orchestrator
\* `(p.priority || 1)` in the comparator.
PriorityOrOne(p) == IF p = 0 THEN 1 ELSE p

\* The priority the configuration declares for a provider.
ConfiguredPriority(name) ==
    IF name = "nodemailer" THEN config.nodemailerPriority ELSE config.sendgridPriority

\* Variant: the comparator reads the priority the configuration gives.
SortKeyConfigured(inst) == PriorityOrOne(ConfiguredPriority(KindOf(inst)))

\* `(p.priority || 1)` of an adapter on the list: the adapter's own field.
SortKey(inst) == PriorityOrOne(ProviderPriority(KindOf(inst)))

\* x put behind every element whose key is at least its own (keeps ties in order).
RECURSIVE InsertByPriority(_, _)
InsertByPriority(x, s) ==
    IF s = <<>> THEN <<x>>
    ELSE IF SortKey(Head(s)) >= SortKey(x)
         THEN <<Head(s)>> \o InsertByPriority(x, Tail(s))
         ELSE <<x>> \o s

\* this.providers.sort((a, b) => (b.priority || 1) - (a.priority || 1)): stable,
\* higher priority first.
RECURSIVE SortProviders(_)
SortProviders(ps) ==
    IF ps = <<>> THEN <<>>
    ELSE InsertByPriority(ps[Len(ps)], SortProviders(SubSeq(ps, 1, Len(ps) - 1)))

\* Variant: the flag is taken to be set whatever it holds.
AlwaysInitialized(flag) == TRUE

\* Variant: the early return is missing.
NeverInitialized(flag) == FALSE

\* `if (this.initialized) return;` and `if (!this.initialized)`.
AlreadyInitialized(flag) == flag

\* Variant: the empty list is not detected.
NeverNoProviders(ps) == FALSE

\* `if (this.providers.length === 0) throw ...`
NoProviders(ps) == Len(ps) = 0

\* Variant: the loop never returns from inside, so it runs to the end.
ShouldReturnNever(result) == FALSE

\* Variant: the loop returns the first result it gets, successful or not.
ShouldReturnAny(result) == TRUE

\* `if (result.success) return result;`
ShouldReturn(result) == result.success

\* Variant: after an unsuccessful attempt the loop stays on the same adapter.
SameIndex(idx) == idx

\* The step of `for (const provider of this.providers)` to the next adapter.
NextIndex(idx) == idx + 1

NoProvidersError == "No mail providers could be initialized"

\* The result sendEmail returns when its loop ends without a success.
AllFailedResult ==
    [success |-> FALSE, provider |-> "none", error |-> "All mail providers failed",
     duration |-> 0]

\* Variant: the last adapter's own failure is returned.
LastAttemptResult(log) ==
    IF log = <<>> THEN AllFailedResult ELSE log[Len(log)].result

\* What the loop's fall-through returns after the attempts in `log`.
ExhaustedResult(log) == AllFailedResult

\* What reading and rendering a template can come to.
TemplateOutcomes == {"ok", "notfound", "renderfail"}

\* Variant: only a missing file is treated as a failure.
TemplateFailedWhenMissing(tpl) == tpl = "notfound"

\* The try block of sendTemplateEmail throws before it reaches sendEmail.
TemplateFailed(tpl) == tpl # "ok"

\* Variant: sendTemplateEmail awaits sendEmail inside its try.
RejectionCaughtByTemplate(op) == op = "sendTemplateEmail"

\* Whether a rejection of sendEmail's promise lands in a catch of the calling
\* operation: in none; sendTemplateEmail hands the promise on with
\* `return this.sendEmail(...)`, it does not await it inside its try.
RejectionCaught(op) == FALSE

TemplateFailureResult ==
    [success |-> FALSE, provider |-> "template-loader",
     error |-> "Template loading failed", duration |-> 0]

\* ---------------------------------------------------------- template text
\* A template file is a sequence of pieces: literal text <<"lit", text>> and
\* double-brace placeholders <<"var", key>>.  The two literals below are the
\* opening and the closing of a subject directive comment.
DirectiveOpen == <<"lit", "<!-- SUBJECT: ">>
DirectiveClose == <<"lit", " -->">>

Lit(text) == <<"lit", text>>
Var(key) == <<"var", key>>

\* The template files of the templates directory.
WelcomeTemplate ==
    <<DirectiveOpen, Lit("Hi "), Var("name"), DirectiveClose,
      Lit("<p>"), Var("name"), Lit("</p>")>>
PlainTemplate == <<Lit("<p>"), Var("name"), Lit("</p>")>>
Templates == {WelcomeTemplate, PlainTemplate}

\* The data maps callers pass.
TemplateData == {[name |-> "Ada"], [name |-> "A&B"]}

\* The HTML escaping a double-brace placeholder applies to its value, on the
\* values of TemplateData ("&" is the only character of theirs it rewrites).
EscapeExpression(value) == IF value = "A&B" THEN "A&amp;B" ELSE value

\* What the compiled template writes for one piece.
RenderPiece(piece, data) ==
    IF piece[1] = "lit" THEN piece[2] ELSE EscapeExpression(data[piece[2]])

\* handlebars.compile(source)(data)
RECURSIVE HandlebarsRender(_, _)
HandlebarsRender(source, data) ==
    IF source = <<>> THEN ""
    ELSE RenderPiece(Head(source), data) \o HandlebarsRender(Tail(source), data)

\* templateSource.match(/<!--\s*SUBJECT:\s*(.+?)\s*-->/i): the positions of the
\* first directive opening that is followed by a closing with something in
\* between, or <<>> when the text has none.
SubjectMatch(source) ==
    LET opens == {i \in 1..Len(source) : /\ source[i] = DirectiveOpen
                                         /\ \E j \in (i + 2)..Len(source) : source[j] = DirectiveClose}
    IN IF opens = {} THEN <<>>
       ELSE LET i == CHOOSE x \in opens : \A y \in opens : x <= y
                j == CHOOSE x \in (i + 2)..Len(source) :
                        /\ source[x] = DirectiveClose
                        /\ \A y \in (i + 2)..Len(source) : source[y] = DirectiveClose => x <= y
            IN <<i, j>>

DefaultSubject == "Email Notification"

\* const subject = subjectMatch ? handlebars.compile(subjectMatch[1])(templateData) : 'Email Notification'
TemplateSubject(source, data) ==
    LET m == SubjectMatch(source)
    IN IF m = <<>> THEN DefaultSubject
       ELSE HandlebarsRender(SubSeq(source, m[1] + 1, m[2] - 1), data)

\* const html = template(templateData): the whole file is rendered.
TemplateHtml(source, data) == HandlebarsRender(source, data)

\* The message sendTemplateEmail hands to sendEmail.
TemplateMessage(source, data) ==
    [subject |-> TemplateSubject(source, data), html |-> TemplateHtml(source, data)]

\* The message of a plain sendEmail call, and the empty slot for it.
CallerMessage == [subject |-> "Hello", html |-> "<p>Hello</p>"]
NoMessage == [subject |-> "", html |-> ""]

\* getProviders()
ProviderNames(ps) == [k \in 1..Len(ps) |-> ProviderName(KindOf(ps[k]))]

\* ------------------------------------------------------------------- state
Snapshot == [providers |-> providers, initialized |-> initialized, adapters |-> adapters]

\* A caller with no call made yet.
IdleCall ==
    [op |-> "none", pc |-> "idle", idx |-> 1, log |-> <<>>, steps |-> {},
     out |-> "none", res |-> NoResult, err |-> "", names |-> <<>>, tpl |-> "none",
     src |-> <<>>, data |-> [name |-> ""], msg |-> NoMessage,
     entry |-> [providers |-> <<>>, initialized |-> FALSE,
                adapters |-> [i \in Inst |-> NoAdapter]]]

\* The record of a call that starts now: its position, what it has done so far
\* (log: adapter sendEmail attempts; steps: adapter constructions, initialize and
\* verifyConnection calls, pushes onto the list) and the orchestrator as the call found it.
NewCall(op, pc) ==
    [IdleCall EXCEPT !.op = op, !.pc = pc, !.entry = Snapshot]

NoHealth ==
    [isHealthy |-> FALSE, successRate |-> 0, errorCount |-> 0, lastError |-> "",
     sentToday |-> 0, sentThisHour |-> 0, queueSize |-> 0]

\* A call on a standalone adapter: what was called, the adapter before it, what
\* the network would answer a connection check during it (net), what it
\* returned (raised, ok, res, health, results) and which collaborators it used
\* (verifyCalled: verifyConnection; transportCalled: the transport's send).
\* For sendBulkEmails: its position (pc, i) over its n messages, the results
\* collected and the attempts begun and ended so far (events).
NoDirect ==
    [op |-> "none", kind |-> "none", raised |-> FALSE, ok |-> FALSE, res |-> NoResult,
     before |-> NoAdapter, cfg |-> [apiKey |-> FALSE, credentials |-> FALSE],
     net |-> FALSE, verifyCalled |-> FALSE,
     transportCalled |-> FALSE, health |-> NoHealth,
     pc |-> "idle", n |-> 0, i |-> 1, results |-> <<>>, events |-> <<>>]

\* The state after `new SimpleEmailService(config)`: every configuration the
\* SimpleEmailConfig interface admits, over the fields the code reads plus the
\* declared priorities.
Init ==
    /\ config \in [nodemailerEnabled : BOOLEAN, sendgridEnabled : BOOLEAN,
                   nodemailerPriority : ConfigPriorities,
                   sendgridPriority : ConfigPriorities,
                   nodemailerCredentials : BOOLEAN,
                   sendgridApiKey : BOOLEAN,
                   overrides : {FALSE}]
    /\ providers = <<>>
    /\ initialized = FALSE
    /\ adapters = [i \in Inst |-> NoAdapter]
    /\ call = [c \in Callers |-> IdleCall]
    /\ direct = NoDirect
    /\ ncalls = 0
    /\ everFailed = FALSE

Enabled(kind) ==
    IF kind = "nodemailer" THEN config.nodemailerEnabled ELSE config.sendgridEnabled

CanStart(c) == call[c].pc \in {"idle", "done"} /\ ncalls < MaxCalls

\* Where a call goes after the initialized check at the head of initialize()
\* (or of sendEmail): past initialization when the flag is set.
AfterInitCheck(flag, skip) == IF AlreadyInitialized(flag) THEN skip ELSE "nodemailer"

\* ------------------------------------------------------------ initialize()
\* initialize() called by the user.
BeginInitialize(c) ==
    /\ CanStart(c)
    /\ ncalls' = ncalls + 1
    /\ LET pc == AfterInitCheck(initialized, "done") IN
       call' = [call EXCEPT ![c] =
                  [NewCall("initialize", pc) EXCEPT
                     !.out = IF pc = "done" THEN "void" ELSE "none"]]
    /\ UNCHANGED <<config, everFailed, providers, initialized, adapters, direct>>

\* createEmailService(config): a new service, then initialize() on it.
BeginCreate(c) ==
    /\ CanStart(c)
    /\ ~initialized /\ providers = <<>>
    /\ \A d \in Callers : call[d].pc \in {"idle", "done"}
    /\ ncalls' = ncalls + 1
    /\ call' = [call EXCEPT ![c] =
                  NewCall("createEmailService", AfterInitCheck(initialized, "done"))]
    /\ UNCHANGED <<config, everFailed, providers, initialized, adapters, direct>>

\* The block of initialize() for one adapter kind, up to its first await:
\* skipped when the kind is not enabled; else the adapter is constructed and
\* its initialize called.  A raise lands in the block's catch and the adapter
\* is dropped.
InitAdapter(c, kind, next) ==
    /\ call[c].pc = kind
    /\ LET inst == <<kind, c>>
           r == AdapterInitialize(kind, NewAdapter, ConnectionConfig(kind))
       IN IF ~Enabled(kind)
          THEN /\ call' = [call EXCEPT ![c].pc = next]
               /\ UNCHANGED adapters
          ELSE IF r.raised
          THEN /\ call' = [call EXCEPT ![c].pc = next,
                             ![c].steps = @ \cup {<<"new", kind>>, <<"initialize", kind>>,
                                                  <<"raise", kind>>}]
               /\ UNCHANGED adapters
          ELSE /\ call' = [call EXCEPT ![c].pc = kind \o "_verify",
                             ![c].steps = @ \cup {<<"new", kind>>, <<"initialize", kind>>}]
               /\ adapters' = [adapters EXCEPT ![inst] = r.adapter]
    /\ UNCHANGED <<config, everFailed, providers, initialized, direct, ncalls>>

\* Variant: the adapter is pushed whatever verifyConnection answered.
RegistersAlways(isConnected) == TRUE

\* `if (isConnected)` in initialize(): the adapter goes onto the list.
Registers(isConnected) == isConnected

\* verifyConnection answers: the adapter is pushed when it is connected, and
\* dropped (no reference to it is kept) when it is not.
VerifyAdapter(c, kind, next, netOk) ==
    /\ call[c].pc = kind \o "_verify"
    /\ LET inst == <<kind, c>>
           isConnected == VerifyConnection(kind, adapters[inst], netOk)
       IN /\ IF Registers(isConnected)
             THEN /\ providers' = Append(providers, inst)
                  /\ UNCHANGED adapters
             ELSE /\ adapters' = [adapters EXCEPT ![inst] = NoAdapter]
                  /\ UNCHANGED providers
          /\ call' = [call EXCEPT ![c].pc = next,
                          ![c].steps = @ \cup {<<"verify", kind>>}
                              \cup (IF isConnected THEN {<<"connected", kind>>} ELSE {})
                              \cup (IF Registers(isConnected) THEN {<<"push", kind>>} ELSE {})]
    /\ UNCHANGED <<config, everFailed, initialized, direct, ncalls>>

InitNodemailer(c) == InitAdapter(c, "nodemailer", "sendgrid")
VerifyNodemailer(c) == \E netOk \in BOOLEAN : VerifyAdapter(c, "nodemailer", "sendgrid", netOk)
InitSendGrid(c) == InitAdapter(c, "sendgrid", "finish")
VerifySendGrid(c) == \E netOk \in BOOLEAN : VerifyAdapter(c, "sendgrid", "finish", netOk)

\* The end of initialize(): the error when nothing survived, else the sort and
\* the flag.  The error leaves sendEmail as it leaves initialize(): the await
\* in sendEmail is outside any try, and sendTemplateEmail returns sendEmail's
\* promise without awaiting it, so its catch does not see the rejection.
FinishInitialize(c) ==
    /\ call[c].pc = "finish"
    /\ IF NoProviders(providers)
       THEN /\ call' = [call EXCEPT ![c] =
                  IF RejectionCaught(call[c].op)
                  THEN [@ EXCEPT !.pc = "done", !.out = "result",
                                 !.res = TemplateFailureResult]
                  ELSE [@ EXCEPT !.pc = "done", !.out = "raised",
                                 !.err = NoProvidersError]]
            /\ UNCHANGED <<providers, initialized>>
       ELSE /\ providers' = SortProviders(providers)
            /\ initialized' = TRUE
            /\ call' = [call EXCEPT
                  ![c].pc = IF call[c].op \in {"sendEmail", "sendTemplateEmail"}
                            THEN "loop" ELSE "done",
                  ![c].out = CASE call[c].op = "initialize" -> "void"
                               [] call[c].op = "createEmailService" -> "service"
                               [] OTHER -> "none"]
    /\ everFailed' = (everFailed \/ NoProviders(providers))
    /\ UNCHANGED <<config, adapters, direct, ncalls>>

\* -------------------------------------------------------------- sendEmail()
\* sendEmail(options): initialization first when the flag is not set.
BeginSend(c) ==
    /\ CanStart(c)
    /\ ncalls' = ncalls + 1
    /\ call' = [call EXCEPT ![c] =
          [NewCall("sendEmail", AfterInitCheck(initialized, "loop")) EXCEPT !.msg = CallerMessage]]
    /\ UNCHANGED <<config, everFailed, providers, initialized, adapters, direct>>

\* One turn of `for (const provider of this.providers)`: the next adapter's
\* sendEmail is called.  It raises at once when the adapter holds no handle
\* (the rejection reaches the loop's catch when the await resumes).
SendAttempt(c) ==
    /\ call[c].pc = "loop"
    /\ call[c].idx <= Len(providers)
    /\ LET inst == providers[call[c].idx] IN
       call' = [call EXCEPT
          ![c].pc = "await_send",
          ![c].log = Append(@, [inst |-> inst,
                                outcome |-> IF AdapterNotReady(KindOf(inst), adapters[inst])
                                            THEN "raise" ELSE "pending",
                                result |-> NoResult])]
    /\ UNCHANGED <<config, everFailed, providers, initialized, adapters, direct, ncalls>>

\* The awaited attempt completes: the adapter has recorded it in its metrics
\* and returned its result; the loop returns a successful result and moves on
\* after any other (a raise is caught and logged).
SendComplete(c) ==
    /\ call[c].pc = "await_send"
    /\ LET k == Len(call[c].log)
           inst == call[c].log[k].inst
           kind == KindOf(inst)
       IN IF call[c].log[k].outcome = "raise"
          THEN /\ call' = [call EXCEPT ![c].pc = "loop", ![c].idx = NextIndex(@)]
               /\ UNCHANGED adapters
          ELSE \E outcome \in TransportOutcomes(adapters[inst]), d \in Durations :
               LET result == AdapterSendResult(kind, outcome, d) IN
               /\ adapters' = [adapters EXCEPT ![inst] = AdapterAfterSend(@, outcome)]
               /\ call' = [call EXCEPT
                     ![c].log[k].outcome = outcome,
                     ![c].log[k].result = result,
                     ![c].pc = IF ShouldReturn(result) THEN "done" ELSE "loop",
                     ![c].idx = IF ShouldReturn(result) THEN @ ELSE NextIndex(@),
                     ![c].out = IF ShouldReturn(result) THEN "result" ELSE @,
                     ![c].res = IF ShouldReturn(result) THEN result ELSE @]
    /\ UNCHANGED <<config, everFailed, providers, initialized, direct, ncalls>>

\* The loop has run off the end of the list.
SendExhausted(c) ==
    /\ call[c].pc = "loop"
    /\ call[c].idx > Len(providers)
    /\ call' = [call EXCEPT ![c].pc = "done", ![c].out = "result",
                            ![c].res = ExhaustedResult(call[c].log)]
    /\ UNCHANGED <<config, everFailed, providers, initialized, adapters, direct, ncalls>>

\* ------------------------------------------------------ sendTemplateEmail()
\* The template is read and rendered synchronously; a failure returns the
\* template-loader result from the catch, otherwise sendEmail is entered.
BeginTemplate(c) ==
    /\ CanStart(c)
    /\ ncalls' = ncalls + 1
    /\ \E tpl \in TemplateOutcomes, source \in Templates, data \in TemplateData :
       call' = [call EXCEPT ![c] =
          IF TemplateFailed(tpl)
          THEN [NewCall("sendTemplateEmail", "done") EXCEPT
                   !.tpl = tpl, !.out = "result", !.res = TemplateFailureResult]
          ELSE [NewCall("sendTemplateEmail", AfterInitCheck(initialized, "loop")) EXCEPT
                   !.tpl = tpl, !.src = source, !.data = data,
                   !.msg = TemplateMessage(source, data)]]
    /\ UNCHANGED <<config, everFailed, providers, initialized, adapters, direct>>

\* ----------------------------------------------------------- getProviders()
GetProviders(c) ==
    /\ CanStart(c)
    /\ ncalls' = ncalls + 1
    /\ call' = [call EXCEPT ![c] =
          [NewCall("getProviders", "done") EXCEPT
              !.out = "names", !.names = ProviderNames(providers)]]
    /\ UNCHANGED <<config, everFailed, providers, initialized, adapters, direct>>

\* ------------------------------------------- adapters used on their own
\* A NodemailerProvider or SendGridProvider constructed by the user.
Standalone(kind) == <<kind, 0>>

DirectCanStart == direct.pc = "idle" /\ ncalls < MaxDirectCalls

DirectConstruct(kind) ==
    /\ DirectCanStart
    /\ ~adapters[Standalone(kind)].exists
    /\ ncalls' = ncalls + 1
    /\ adapters' = [adapters EXCEPT ![Standalone(kind)] = NewAdapter]
    /\ direct' = [NoDirect EXCEPT !.op = "new", !.kind = kind]
    /\ UNCHANGED <<config, everFailed, providers, initialized, call>>

DirectInitialize(kind) ==
    /\ DirectCanStart
    /\ adapters[Standalone(kind)].exists
    /\ ncalls' = ncalls + 1
    /\ \E cfg \in ConnectionConfigs(kind) :
       LET a == adapters[Standalone(kind)]
           r == AdapterInitialize(kind, a, cfg)
       IN /\ adapters' = [adapters EXCEPT ![Standalone(kind)] = r.adapter]
          /\ direct' = [NoDirect EXCEPT !.op = "initialize", !.kind = kind,
                                        !.cfg = cfg,
                                        !.raised = r.raised, !.before = a]
    /\ UNCHANGED <<config, everFailed, providers, initialized, call>>

DirectVerify(kind) ==
    /\ DirectCanStart
    /\ adapters[Standalone(kind)].exists
    /\ ncalls' = ncalls + 1
    /\ \E netOk \in BOOLEAN :
       direct' = [NoDirect EXCEPT !.op = "verifyConnection", !.kind = kind,
                     !.ok = VerifyConnection(kind, adapters[Standalone(kind)], netOk),
                     !.before = adapters[Standalone(kind)]]
    /\ UNCHANGED <<config, everFailed, providers, initialized, adapters, call>>

\* sendEmail on the adapter itself, from its entry to its return or raise.
DirectSendEmail(kind) ==
    /\ DirectCanStart
    /\ adapters[Standalone(kind)].exists
    /\ ncalls' = ncalls + 1
    /\ LET a == adapters[Standalone(kind)] IN
       IF AdapterNotReady(kind, a)
       THEN /\ direct' = [NoDirect EXCEPT !.op = "sendEmail", !.kind = kind,
                                          !.raised = TRUE, !.before = a]
            /\ UNCHANGED adapters
       ELSE \E outcome \in TransportOutcomes(a), d \in Durations :
            /\ adapters' = [adapters EXCEPT ![Standalone(kind)] = AdapterAfterSend(a, outcome)]
            /\ direct' = [NoDirect EXCEPT !.op = "sendEmail", !.kind = kind,
                             !.res = AdapterSendResult(kind, outcome, d), !.before = a,
                             !.transportCalled = TRUE]
    /\ UNCHANGED <<config, everFailed, providers, initialized, call>>

DirectHealth(kind) ==
    /\ DirectCanStart
    /\ adapters[Standalone(kind)].exists
    /\ ncalls' = ncalls + 1
    /\ \E netOk \in BOOLEAN :
       direct' = [NoDirect EXCEPT !.op = "getHealthStatus", !.kind = kind,
                     !.net = netOk,
                     !.verifyCalled = HealthCallsVerify(kind),
                     !.health = HealthStatus(kind, adapters[Standalone(kind)], netOk),
                     !.before = adapters[Standalone(kind)]]
    /\ UNCHANGED <<config, everFailed, providers, initialized, adapters, call>>

\* NodemailerProvider.sendBulkEmails(emails) with n messages is entered.
BulkBegin(n) ==
    /\ DirectCanStart
    /\ adapters[Standalone("nodemailer")].exists
    /\ ncalls' = ncalls + 1
    /\ direct' = [NoDirect EXCEPT !.op = "sendBulkEmails", !.kind = "nodemailer",
                     !.pc = "bulk_next", !.n = n,
                     !.before = adapters[Standalone("nodemailer")]]
    /\ UNCHANGED <<config, everFailed, providers, initialized, adapters, call>>

\* One turn of its loop: this.sendEmail(email) is called for message i.
BulkAttempt ==
    /\ direct.pc = "bulk_next"
    /\ direct.i <= direct.n
    /\ LET a == adapters[Standalone("nodemailer")] IN
       direct' = [direct EXCEPT
          !.pc = "bulk_await",
          !.raised = AdapterNotReady("nodemailer", a),
          !.transportCalled = @ \/ ~AdapterNotReady("nodemailer", a),
          !.events = Append(@, [ev |-> "start", msg |-> direct.i, result |-> NoResult])]
    /\ UNCHANGED <<config, everFailed, providers, initialized, adapters, call, ncalls>>

\* The awaited sendEmail settles: its result, or the failed result the catch
\* builds from its raise, is pushed; then the fixed delay and the next turn.
BulkComplete ==
    /\ direct.pc = "bulk_await"
    /\ LET a == adapters[Standalone("nodemailer")] IN
       IF direct.raised
       THEN LET result == BulkCaughtResult("nodemailer", NotInitializedError("nodemailer")) IN
            /\ direct' = [direct EXCEPT
                  !.pc = "bulk_next", !.i = @ + 1, !.raised = FALSE,
                  !.results = BulkPush(@, result),
                  !.events = Append(@, [ev |-> "end", msg |-> direct.i, result |-> result])]
            /\ UNCHANGED adapters
       ELSE \E outcome \in TransportOutcomes(a), d \in Durations :
            LET result == AdapterSendResult("nodemailer", outcome, d) IN
            /\ adapters' = [adapters EXCEPT
                  ![Standalone("nodemailer")] = AdapterAfterSend(a, outcome)]
            /\ direct' = [direct EXCEPT
                  !.pc = "bulk_next", !.i = @ + 1,
                  !.results = BulkPush(@, result),
                  !.events = Append(@, [ev |-> "end", msg |-> direct.i, result |-> result])]
    /\ UNCHANGED <<config, everFailed, providers, initialized, call, ncalls>>

\* The loop is over: `return results`.
BulkReturn ==
    /\ direct.pc = "bulk_next"
    /\ direct.i > direct.n
    /\ direct' = [direct EXCEPT !.pc = "idle"]
    /\ UNCHANGED <<config, everFailed, providers, initialized, adapters, call, ncalls>>

\* SendGridProvider.sendBulkEmails(emails) with n messages, from its entry to
\* its return or raise: one batch call to the API.
SendGridBulk(n) ==
    /\ DirectCanStart
    /\ adapters[Standalone("sendgrid")].exists
    /\ ncalls' = ncalls + 1
    /\ LET a == adapters[Standalone("sendgrid")] IN
       IF AdapterNotReady("sendgrid", a)
       THEN /\ direct' = [NoDirect EXCEPT !.op = "sendBulkEmails", !.kind = "sendgrid",
                             !.n = n, !.raised = TRUE, !.before = a]
            /\ UNCHANGED adapters
       ELSE \E outcome \in TransportOutcomes(a), d \in Durations :
            /\ adapters' = [adapters EXCEPT
                  ![Standalone("sendgrid")].metrics = SendGridBulkMetrics(@, n, outcome),
                  ![Standalone("sendgrid")].attempted = @ + n]
            /\ direct' = [NoDirect EXCEPT !.op = "sendBulkEmails", !.kind = "sendgrid",
                             !.n = n, !.before = a, !.transportCalled = TRUE,
                             !.ok = (outcome = "ok"),
                             !.results = SendGridBulkResults("sendgrid", n, outcome, d)]
    /\ UNCHANGED <<config, everFailed, providers, initialized, call>>

DirectShutdown(kind) ==
    /\ DirectCanStart
    /\ adapters[Standalone(kind)].exists
    /\ ncalls' = ncalls + 1
    /\ adapters' = [adapters EXCEPT ![Standalone(kind)] = AdapterShutdown(kind, @)]
    /\ direct' = [NoDirect EXCEPT !.op = "shutdown", !.kind = kind,
                                  !.before = adapters[Standalone(kind)]]
    /\ UNCHANGED <<config, everFailed, providers, initialized, call>>

\* ----------------------------------------------------------- specifications
\* The orchestrator used by one caller, one call at a time.
Next ==
    \E c \in SeqCallers :
        \/ BeginInitialize(c)
        \/ BeginCreate(c)
        \/ InitNodemailer(c)
        \/ VerifyNodemailer(c)
        \/ InitSendGrid(c)
        \/ VerifySendGrid(c)
        \/ FinishInitialize(c)
        \/ BeginSend(c)
        \/ SendAttempt(c)
        \/ SendComplete(c)
        \/ SendExhausted(c)
        \/ BeginTemplate(c)
        \/ GetProviders(c)

Spec == Init /\ [][Next]_vars

\* The same orchestrator under every configuration that enables both adapters
\* with their credentials: the declared priorities vary, and so does whether
\* the configuration sets the fields no code reads (overrides).
InitConfig ==
    /\ config \in [nodemailerEnabled : {TRUE}, sendgridEnabled : {TRUE},
                   nodemailerPriority : ConfigPriorities,
                   sendgridPriority : ConfigPriorities,
                   nodemailerCredentials : {TRUE},
                   sendgridApiKey : {TRUE},
                   overrides : BOOLEAN]
    /\ providers = <<>>
    /\ initialized = FALSE
    /\ adapters = [i \in Inst |-> NoAdapter]
    /\ call = [c \in Callers |-> IdleCall]
    /\ direct = NoDirect
    /\ ncalls = 0
    /\ everFailed = FALSE

SpecConfig == InitConfig /\ [][Next]_vars

\* The orchestrator used by two callers whose initialize() and sendEmail()
\* calls may overlap: a call that is suspended at an await lets the other
\* caller's call run.
NextConc ==
    \E c \in Callers :
        \/ ncalls < MaxConcCalls /\ BeginInitialize(c)
        \/ InitNodemailer(c)
        \/ VerifyNodemailer(c)
        \/ InitSendGrid(c)
        \/ VerifySendGrid(c)
        \/ FinishInitialize(c)
        \/ ncalls < MaxConcCalls /\ BeginSend(c)
        \/ SendAttempt(c)
        \/ SendComplete(c)
        \/ SendExhausted(c)

\* Both adapters are enabled and hold their credentials.
InitConc ==
    /\ Init
    /\ config = [nodemailerEnabled |-> TRUE, sendgridEnabled |-> TRUE,
                 nodemailerPriority |-> 1, sendgridPriority |-> 1,
                 nodemailerCredentials |-> TRUE, sendgridApiKey |-> TRUE,
                 overrides |-> FALSE]

SpecConc == InitConc /\ [][NextConc]_vars

\* A send in progress goes on: the loop runs whenever it can, and the awaited
\* adapter attempt settles and resumes the call.
Fairness ==
    \A c \in SeqCallers :
        /\ WF_vars(SendAttempt(c))
        /\ WF_vars(SendComplete(c))
        /\ WF_vars(SendExhausted(c))

\* The orchestrator with both adapters enabled, used by one caller, under the
\* assumption that every adapter attempt completes.
SpecLive == InitConc /\ [][Next]_vars /\ Fairness

\* The adapters used directly, one call at a time.
NextAdapter ==
    \E kind \in Kinds :
        \/ DirectConstruct(kind)
        \/ DirectInitialize(kind)
        \/ DirectVerify(kind)
        \/ DirectSendEmail(kind)
        \/ DirectHealth(kind)
        \/ DirectShutdown(kind)

\* The adapters used directly, sendBulkEmails included.
NextBulk ==
    \/ NextAdapter
    \/ \E n \in 0..MaxBulk : BulkBegin(n)
    \/ BulkAttempt
    \/ BulkComplete
    \/ BulkReturn
    \/ \E n \in 0..MaxBulk : SendGridBulk(n)

\* No orchestrator takes part: its configuration is left at one value.
InitAdapters ==
    /\ Init
    /\ config = [nodemailerEnabled |-> TRUE, sendgridEnabled |-> TRUE,
                 nodemailerPriority |-> 1, sendgridPriority |-> 1,
                 nodemailerCredentials |-> TRUE, sendgridApiKey |-> TRUE,
                 overrides |-> FALSE]

SpecAdapter == InitAdapters /\ [][NextBulk]_vars

\* ------------------------------------------------------------------ claims
SendOps == {"sendEmail", "sendTemplateEmail"}
InitOps == {"initialize", "createEmailService"}
Unsuccessful == {"fail", "raise"}

\* The adapter kinds a call pushed onto the list.
Survivors(c) == {kind \in Kinds : <<"push", kind>> \in call[c].steps}

\* C1: on a Ready orchestrator a send attempts the adapters in list order, one
\* at a time (an attempt has completed, unsuccessfully, before the next one
\* begins); the first successful result ends the call and is what it returns,
\* so nothing behind that adapter is attempted and at most one attempt succeeds.
C1_FailoverInOrder ==
    \A c \in Callers :
        (call[c].op \in SendOps /\ call[c].entry.initialized) =>
            LET log == call[c].log
                ps == call[c].entry.providers
            IN /\ Len(log) <= Len(ps)
               /\ \A k \in 1..Len(log) : log[k].inst = ps[k]
               /\ \A k \in 1..(Len(log) - 1) : log[k].outcome \in Unsuccessful
               /\ \A k \in 1..Len(log) :
                     log[k].outcome = "ok" =>
                        /\ k = Len(log)
                        /\ call[c].pc = "done"
                        /\ call[c].out = "result"
                        /\ call[c].res = log[k].result
                        /\ call[c].res.success

\* C1 witness: two active adapters, the first succeeded and the call returned
\* without attempting the second.
C1_Witness ==
    \E c \in Callers :
        /\ call[c].op = "sendEmail" /\ call[c].pc = "done"
        /\ call[c].entry.initialized
        /\ Len(call[c].entry.providers) = 2
        /\ Len(call[c].log) = 1
        /\ call[c].log[1].outcome = "ok"

AFailedWithBActive(c) ==
    /\ call[c].op = "sendEmail" /\ call[c].pc = "done"
    /\ Len(providers) = 2
    /\ KindOf(providers[1]) = "sendgrid" /\ KindOf(providers[2]) = "nodemailer"
    /\ Len(call[c].log) >= 1
    /\ call[c].log[1].inst = providers[1]
    /\ call[c].log[1].outcome = "fail"

\* C3 as stated: whenever A's sendEmail returns success=false, the call returns
\* the result B's sendEmail produced.
C3_ReturnsBResult ==
    \A c \in Callers :
        AFailedWithBActive(c) =>
            /\ Len(call[c].log) = 2
            /\ call[c].log[2].inst = providers[2]
            /\ call[c].res = call[c].log[2].result

\* C3 amended: whenever A's sendEmail returns success=false, B is attempted
\* next; the call returns B's result when that result is successful and the
\* all-providers-failed result when it is not, and never A's result.
C3_ReturnsBResultIfSuccessful ==
    \A c \in Callers :
        AFailedWithBActive(c) =>
            /\ Len(call[c].log) = 2
            /\ call[c].log[2].inst = providers[2]
            /\ call[c].log[2].outcome = "ok" => call[c].res = call[c].log[2].result
            /\ call[c].log[2].outcome # "ok" => call[c].res = AllFailedResult
            /\ call[c].res # call[c].log[1].result

\* C3 witness: A failed, B succeeded, and B's result is what the call returned.
C3_Witness ==
    \E c \in Callers :
        /\ AFailedWithBActive(c)
        /\ Len(call[c].log) = 2
        /\ call[c].log[2].outcome = "ok"
        /\ call[c].res.provider = "nodemailer"

\* Registration order: nodemailer is registered before sendgrid.
RegisteredBefore(n1, n2) == n1 = "nodemailer" /\ n2 = "sendgrid"

\* names is in descending order of configured priority, ties in registration order.
ByConfiguredPriority(names) ==
    \A i, j \in 1..Len(names) :
        i < j => \/ ConfiguredPriority(names[i]) > ConfiguredPriority(names[j])
                 \/ /\ ConfiguredPriority(names[i]) = ConfiguredPriority(names[j])
                    /\ RegisteredBefore(names[i], names[j])

\* C4 as stated: an initialize() in which at least one adapter survived ends
\* Ready, and getProviders() then lists the survivors by descending configured
\* priority, ties in registration order.
C4_SortedByConfiguredPriority ==
    \A c \in Callers :
        (/\ call[c].op \in InitOps /\ call[c].pc = "done"
         /\ ~call[c].entry.initialized
         /\ Survivors(c) # {}) =>
            /\ call[c].out # "raised"
            /\ initialized
            /\ {ProviderNames(providers)[k] : k \in 1..Len(providers)} = Survivors(c)
            /\ ByConfiguredPriority(ProviderNames(providers))

\* C5 as stated: with nodemailer.priority = 1 and sendgrid.priority = 2 and
\* both adapters active, a send attempts nodemailer first, and sendgrid only
\* after nodemailer's attempt has failed.
C5_NodemailerIsPrimary ==
    \A c \in Callers :
        (/\ call[c].op = "sendEmail"
         /\ config.nodemailerPriority = 1 /\ config.sendgridPriority = 2
         /\ Len(providers) = 2 /\ initialized
         /\ Len(call[c].log) >= 1) =>
            /\ KindOf(call[c].log[1].inst) = "nodemailer"
            /\ \A k \in 1..Len(call[c].log) :
                  KindOf(call[c].log[k].inst) = "sendgrid" =>
                      /\ k = 2
                      /\ call[c].log[1].outcome \in Unsuccessful

\* C6: an initialize() or createEmailService() in which no adapter survived
\* initialization and verification fails with the no-providers error and
\* leaves the orchestrator not Ready with an empty adapter list.
C6_NoProvidersError ==
    \A c \in Callers :
        (/\ call[c].op \in InitOps /\ call[c].pc = "done"
         /\ ~call[c].entry.initialized
         /\ Survivors(c) = {}) =>
            /\ call[c].out = "raised"
            /\ call[c].err = "No mail providers could be initialized"
            /\ ~initialized
            /\ providers = <<>>

\* C6 witness: createEmailService failed although both adapters were enabled
\* and tried.
C6_Witness ==
    \E c \in Callers :
        /\ call[c].op = "createEmailService" /\ call[c].pc = "done"
        /\ call[c].out = "raised"
        /\ <<"verify", "nodemailer">> \in call[c].steps
        /\ <<"new", "sendgrid">> \in call[c].steps

\* C7: initialize() on a Ready orchestrator returns at once: it constructs no
\* adapter, calls no adapter's initialize or verifyConnection, and leaves the
\* adapter list, the adapters and the Ready flag as they were.
C7_InitializeIdempotent ==
    \A c \in Callers :
        (call[c].op = "initialize" /\ call[c].entry.initialized) =>
            /\ call[c].pc = "done"
            /\ call[c].out = "void"
            /\ call[c].steps = {}
            /\ providers = call[c].entry.providers
            /\ adapters = call[c].entry.adapters
            /\ initialized

\* C7 witness: initialize() was called on a Ready orchestrator.
C7_Witness ==
    \E c \in Callers :
        /\ call[c].op = "initialize" /\ call[c].pc = "done"
        /\ call[c].entry.initialized
        /\ Len(call[c].entry.providers) = 2

\* C8 as stated: every sendEmail or sendTemplateEmail call completes by
\* returning a result, never by raising.
C8_SendNeverRaises ==
    \A c \in Callers :
        (call[c].op \in SendOps /\ call[c].pc = "done") =>
            /\ call[c].out = "result"
            /\ call[c].err = ""

\* C9: a sendTemplateEmail whose template cannot be read or rendered returns a
\* failed result of provider "template-loader"; no adapter is attempted or
\* initialized, no adapter's metrics change, and the orchestrator's adapter
\* list and Ready flag are as before the call.
C9_TemplateFailure ==
    \A c \in Callers :
        (call[c].op = "sendTemplateEmail" /\ call[c].tpl \in {"notfound", "renderfail"}) =>
            /\ call[c].pc = "done"
            /\ call[c].out = "result"
            /\ ~call[c].res.success
            /\ call[c].res.provider = "template-loader"
            /\ call[c].log = <<>>
            /\ call[c].steps = {}
            /\ adapters = call[c].entry.adapters
            /\ providers = call[c].entry.providers
            /\ initialized = call[c].entry.initialized

\* C9 witness: rendering failed on a Ready orchestrator with two adapters.
C9_Witness ==
    \E c \in Callers :
        /\ call[c].op = "sendTemplateEmail" /\ call[c].pc = "done"
        /\ call[c].tpl = "renderfail"
        /\ call[c].entry.initialized
        /\ Len(providers) = 2

\* C10 as stated: an adapter's sendEmail never raises, whatever state the
\* adapter is in; a failure comes back as a result with success=false, the
\* error text and the adapter's name.
C10_AdapterSendNeverRaises ==
    direct.op = "sendEmail" =>
        /\ ~direct.raised
        /\ ~direct.res.success =>
              /\ direct.res.provider = ProviderName(direct.kind)
              /\ direct.res.error # ""

\* C11 as stated: getHealthStatus calls verifyConnection every time, and reports
\* isHealthy exactly when that connection check passes and the success rate is
\* strictly above 95%; without recorded attempts the rate is 0 and the adapter
\* is unhealthy.
C11_HealthyIffConnectedAndRate ==
    direct.op = "getHealthStatus" =>
        LET m == direct.before.metrics
            connected == VerifyConnection(direct.kind, direct.before, direct.net)
        IN /\ direct.verifyCalled
           /\ direct.health.isHealthy <=>
                 (connected /\ m.successCount * 100 > 95 * (m.successCount + m.errorCount))
           /\ (m.successCount + m.errorCount = 0) =>
                 (direct.health.successRate = 0 /\ ~direct.health.isHealthy)

\* C12: a sendBulkEmails call on the Nodemailer adapter attempts its messages
\* one after the other (attempt i has ended before attempt i+1 starts), result
\* i is the outcome of message i's own attempt, and the call returns as many
\* results as it was given messages, whatever failed.
C12_BulkPositional ==
    (direct.op = "sendBulkEmails" /\ direct.kind = "nodemailer") =>
        LET ev == direct.events
            rs == direct.results
        IN /\ \A k \in 1..Len(ev) :
                 /\ ev[k].msg = (k + 1) \div 2
                 /\ ev[k].ev = IF k % 2 = 1 THEN "start" ELSE "end"
           /\ Len(rs) = Len(ev) \div 2
           /\ \A i \in 1..Len(rs) : rs[i] = ev[2 * i].result
           /\ direct.pc = "idle" => (Len(rs) = direct.n /\ ~direct.raised)

\* C12 witness: three messages, the second failed, the others were delivered.
C12_Witness ==
    /\ direct.op = "sendBulkEmails" /\ direct.kind = "nodemailer"
    /\ direct.pc = "idle" /\ direct.n = 3
    /\ Len(direct.results) = 3
    /\ direct.results[1].success
    /\ ~direct.results[2].success
    /\ direct.results[3].success

\* C13 as stated: a sendBulkEmails call on the SendGrid adapter returns one
\* result per message, and when the batch call fails every result is a failure
\* with the same error text.
C13_BatchOneResultPerMessage ==
    (direct.op = "sendBulkEmails" /\ direct.kind = "sendgrid") =>
        /\ ~direct.raised
        /\ Len(direct.results) = direct.n
        /\ ~direct.ok =>
              \A i, j \in 1..direct.n :
                  /\ ~direct.results[i].success
                  /\ direct.results[i].error # ""
                  /\ direct.results[i].error = direct.results[j].error

\* C14 as stated: a sendTemplateEmail call whose template carries a subject
\* directive passes to sendEmail the directive text rendered with the data as
\* subject and the rendered template body, without the directive, as html
\* ("Hi Ada" and "<p>Ada</p>" for the welcome template and name Ada); a
\* template without directive gets the subject "Email Notification".
C14_SubjectAndBody ==
    \A c \in Callers :
        (call[c].op = "sendTemplateEmail" /\ call[c].tpl = "ok") =>
            /\ (call[c].src = WelcomeTemplate /\ call[c].data.name = "Ada") =>
                  call[c].msg = [subject |-> "Hi Ada", html |-> "<p>Ada</p>"]
            /\ call[c].src = PlainTemplate => call[c].msg.subject = "Email Notification"

\* The credentials of an adapter kind are in the configuration.
CredentialsPresent(kind) ==
    IF kind = "nodemailer" THEN config.nodemailerCredentials ELSE config.sendgridApiKey

\* C15 as stated: whenever initialize is called on an adapter whose credentials
\* are absent from the configuration, the call raises, and that adapter is not
\* on the active list, for the SMTP adapter as for the API adapter.
C15_MissingCredentialsRaise ==
    \A c \in Callers : \A kind \in Kinds :
        (<<"initialize", kind>> \in call[c].steps /\ ~CredentialsPresent(kind)) =>
            /\ <<"raise", kind>> \in call[c].steps
            /\ <<"push", kind>> \notin call[c].steps
            /\ \A k \in 1..Len(providers) : KindOf(providers[k]) # kind

\* An adapter on which shutdown has acted since its last initialize.
ShutDown(kind, a) ==
    /\ a.exists
    /\ IF kind = "nodemailer" THEN a.transporter = "closed" ELSE ~a.isInitialized

\* C16 as stated: shutdown does not raise and a second shutdown changes
\* nothing; on an adapter that has been shut down verifyConnection returns
\* false and sendEmail performs no transport send.
C16_ShutdownReleases ==
    \A kind \in Kinds :
        LET a == adapters[Standalone(kind)] IN
        /\ (direct.op = "shutdown" /\ direct.kind = kind) =>
              /\ ~direct.raised
              /\ AdapterShutdown(kind, a) = a
        /\ (direct.kind = kind /\ ShutDown(kind, direct.before)) =>
              /\ direct.op = "shutdown" => a = direct.before
              /\ direct.op = "verifyConnection" => ~direct.ok
              /\ direct.op = "sendEmail" => ~direct.transportCalled

\* C17 as stated: once an initialize() has failed for want of a surviving
\* adapter the orchestrator never becomes Ready, and once Ready it stays Ready.
C17_TwoTerminalStates ==
    [][/\ everFailed => ~initialized'
       /\ initialized => initialized']_vars

\* C17, amended: Ready is terminal, Failed is not.  Once Ready the orchestrator
\* stays Ready; it becomes Ready only at the end of an initialization in which
\* an adapter survived, whether or not an earlier initialization failed; and
\* while it is not Ready its adapter list is empty or still being filled by an
\* initialization in progress.
C17_ReadyIsTerminal ==
    [][/\ initialized => initialized'
       /\ (~initialized /\ initialized') =>
              \E c \in Callers : /\ call[c].pc = "finish"
                                 /\ Survivors(c) # {}
                                 /\ call'[c].pc \in {"loop", "done"}
       /\ (~initialized /\ ~initialized' /\ providers' # <<>>) =>
              \E c \in Callers : call'[c].pc \in {"sendgrid", "sendgrid_verify", "finish"}]_vars

\* C17 witness: the orchestrator is Ready although an earlier initialization
\* had failed.
C17_Witness == everFailed /\ initialized

\* The call ran the initialization and it succeeded.
Initialized(c) ==
    /\ call[c].op \in InitOps \cup SendOps
    /\ ~call[c].entry.initialized
    /\ call[c].pc \in {"loop", "await_send", "done"}
    /\ call[c].out # "raised"
    /\ ~(call[c].op = "sendTemplateEmail" /\ TemplateFailed(call[c].tpl))

\* The adapter kinds that, in the call's initialization, were enabled, whose
\* initialize did not raise and whose verifyConnection answered true.
Qualified(c) ==
    {kind \in Kinds : /\ Enabled(kind)
                      /\ <<"initialize", kind>> \in call[c].steps
                      /\ <<"raise", kind>> \notin call[c].steps
                      /\ <<"connected", kind>> \in call[c].steps}

\* C18: after a successful initialization the adapter list holds exactly the
\* enabled adapters whose initialize did not raise and whose verifyConnection
\* answered true, each once; a disabled adapter is never constructed; and every
\* enabled adapter is tried, whatever happened to the other one.
C18_ExactlyTheSurvivors ==
    \A c \in Callers :
        /\ \A kind \in Kinds : ~Enabled(kind) => <<"new", kind>> \notin call[c].steps
        /\ Initialized(c) =>
              /\ {KindOf(providers[k]) : k \in 1..Len(providers)} = Qualified(c)
              /\ Len(providers) = Cardinality(Qualified(c))
              /\ \A kind \in Kinds : Enabled(kind) => <<"verify", kind>> \in call[c].steps
                                                      \/ <<"raise", kind>> \in call[c].steps

\* C18 witness: initialize() succeeded with the API adapter alone on the list,
\* the SMTP adapter having failed its verification.
C18_Witness ==
    \E c \in Callers :
        /\ call[c].op = "initialize" /\ call[c].out = "void"
        /\ <<"verify", "nodemailer">> \in call[c].steps
        /\ <<"connected", "nodemailer">> \notin call[c].steps
        /\ Len(providers) = 1 /\ KindOf(providers[1]) = "sendgrid"

\* The call has entered sendEmail (directly or from sendTemplateEmail).
InSendEmail(c) ==
    \/ call[c].op = "sendEmail"
    \/ call[c].op = "sendTemplateEmail" /\ ~TemplateFailed(call[c].tpl)

\* The call has run the whole initialization: every enabled adapter was
\* constructed and initialized, and verified unless its initialize raised, and
\* the list is in sorted order.
FullyInitialized(c) ==
    /\ \A kind \in Kinds :
          Enabled(kind) =>
              /\ {<<"new", kind>>, <<"initialize", kind>>} \subseteq call[c].steps
              /\ <<"verify", kind>> \in call[c].steps \/ <<"raise", kind>> \in call[c].steps
    /\ providers = SortProviders(providers)

\* C19: a sendEmail call on an orchestrator that is not Ready has run the whole
\* initialization before it calls any adapter's sendEmail, and the orchestrator
\* is Ready then and when the call returns a result; a sendEmail call on a
\* Ready orchestrator performs no initialization step.
C19_LazyInitialization ==
    \A c \in Callers :
        InSendEmail(c) =>
            /\ call[c].entry.initialized => call[c].steps = {}
            /\ (~call[c].entry.initialized /\ call[c].log # <<>>) =>
                  (initialized /\ FullyInitialized(c))
            /\ (call[c].pc = "done" /\ call[c].out = "result") => initialized

\* C19 witness: a sendEmail call found the orchestrator not Ready, initialized
\* both adapters and returned a result after an attempt.
C19_Witness ==
    \E c \in Callers :
        /\ call[c].op = "sendEmail" /\ ~call[c].entry.initialized
        /\ call[c].pc = "done" /\ call[c].out = "result"
        /\ Survivors(c) = Kinds
        /\ call[c].log # <<>>

\* C20 as stated: whatever the interleaving of two overlapping calls on an
\* orchestrator that is not Ready, no adapter kind is constructed twice, the
\* adapter list never holds two entries with the same provider name, and no
\* sendEmail call attempts the same provider twice.
C20_OnePerKind ==
    /\ \A kind \in Kinds :
          Cardinality({c \in Callers : adapters[<<kind, c>>].exists}) <= 1
    /\ \A i, j \in 1..Len(providers) :
          i # j => ProviderName(KindOf(providers[i])) # ProviderName(KindOf(providers[j]))
    /\ \A c \in Callers : \A i, j \in 1..Len(call[c].log) :
          i # j => ProviderName(KindOf(call[c].log[i].inst)) #
                   ProviderName(KindOf(call[c].log[j].inst))

\* C21 as stated: every message an adapter hands to its transport is counted
\* once, as a success or as an error, so successCount + errorCount is the
\* number of messages the adapter has attempted; a failed sendEmail records its
\* error text as lastError and leaves successCount alone, a successful one
\* leaves errorCount and lastError alone.
C21_MetricsAccounting ==
    /\ \A inst \in Inst :
          adapters[inst].exists =>
              adapters[inst].metrics.successCount + adapters[inst].metrics.errorCount
                  = adapters[inst].attempted
    /\ (direct.op = "sendEmail" /\ direct.transportCalled) =>
          LET m0 == direct.before.metrics
              m1 == adapters[Standalone(direct.kind)].metrics
          IN IF direct.res.success
             THEN /\ m1.successCount = m0.successCount + 1
                  /\ m1.errorCount = m0.errorCount
                  /\ m1.lastError = m0.lastError
             ELSE /\ m1.errorCount = m0.errorCount + 1
                  /\ m1.successCount = m0.successCount
                  /\ m1.lastError = direct.res.error

\* C22: in every adapter state the counters sentToday and sentThisHour both
\* equal successCount (nothing resets or lowers them), and every health
\* snapshot reports these counters and a queue size of 0.
C22_WindowCountersAccumulate ==
    /\ \A inst \in Inst :
          LET m == adapters[inst].metrics IN
          /\ m.sentToday = m.successCount
          /\ m.sentThisHour = m.successCount
    /\ direct.op = "getHealthStatus" =>
          /\ direct.health.queueSize = 0
          /\ direct.health.sentToday = direct.before.metrics.successCount
          /\ direct.health.sentThisHour = direct.before.metrics.successCount

\* C22 witness: a health snapshot of an adapter that has delivered two
\* messages and failed one.
C22_Witness ==
    /\ direct.op = "getHealthStatus"
    /\ direct.health.sentToday = 2
    /\ direct.health.errorCount = 1

\* The order of a set of adapter kinds that rests on nothing but the kind.
FixedOrder(S) == SelectSeq(<<"sendgrid", "nodemailer">>, LAMBDA kind : kind \in S)

C24_ListFrozenOnceReady ==
    [][/\ initialized => providers' = providers
       /\ \A c \in Callers :
             (/\ call'[c].op \in SendOps
              /\ call'[c].entry.initialized
              /\ call'[c].log # <<>>) =>
                 /\ call'[c].entry.providers = providers
                 /\ call'[c].log[1].inst = providers[1]]_vars

\* C24 witness: a send on a Ready orchestrator with two adapters attempts the
\* head of the list although that adapter has only failures on record.
C24_Witness ==
    \E c \in Callers :
        /\ call[c].op = "sendEmail" /\ call[c].entry.initialized
        /\ Len(providers) = 2
        /\ call[c].log # <<>>
        /\ call[c].log[1].inst = providers[1]
        /\ call[c].entry.adapters[providers[1]].metrics.successCount = 0
        /\ call[c].entry.adapters[providers[1]].metrics.errorCount > 0
        /\ call[c].entry.adapters[providers[2]].metrics.successCount > 0

\* The call is a sendEmail that found the orchestrator Ready.
ReadySend(c) == call[c].op = "sendEmail" /\ call[c].entry.initialized

\* C25: provided every adapter attempt completes, a sendEmail call on a Ready
\* orchestrator returns a result, after at most one attempt per adapter on the
\* list and none on an adapter it has attempted before.
C25_SendTerminates ==
    /\ [](\A c \in SeqCallers :
            ReadySend(c) =>
                /\ Len(call[c].log) <= Len(providers)
                /\ \A i, j \in 1..Len(call[c].log) :
                      i # j => call[c].log[i].inst # call[c].log[j].inst)
    /\ \A c \in SeqCallers :
          (ReadySend(c) /\ call[c].pc # "done") ~>
              (ReadySend(c) /\ call[c].pc = "done" /\ call[c].out = "result")

\* C25 witness: a send on a Ready orchestrator returned after one attempt on
\* each of its two adapters.
C25_Witness ==
    \E c \in SeqCallers :
        /\ ReadySend(c) /\ call[c].pc = "done" /\ call[c].out = "result"
        /\ Len(providers) = 2
        /\ Len(call[c].log) = 2

\* C26: a sendTemplateEmail call whose template resolved ends as the
\* sendEmail call on the rendered message ends: with the successful attempt's
\* result, with the all-providers-failed result, or with the initialization
\* error raised; its result is tagged "template-loader" exactly when the
\* template failed to load or render, and then no adapter was attempted.
C26_TemplateLoaderOnlyForTemplate ==
    \A c \in Callers :
        (call[c].op = "sendTemplateEmail" /\ call[c].pc = "done") =>
            IF TemplateFailed(call[c].tpl)
            THEN /\ call[c].out = "result"
                 /\ call[c].res.provider = "template-loader"
                 /\ call[c].log = <<>> /\ call[c].steps = {}
            ELSE /\ call[c].msg = TemplateMessage(call[c].src, call[c].data)
                 /\ call[c].res.provider # "template-loader"
                 /\ \/ /\ call[c].out = "raised"
                       /\ call[c].err = NoProvidersError
                       /\ call[c].log = <<>>
                    \/ /\ call[c].out = "result"
                       /\ LET n == Len(call[c].log) IN
                          call[c].res = IF n > 0 /\ call[c].log[n].outcome = "ok"
                                        THEN call[c].log[n].result
                                        ELSE AllFailedResult

\* C26 witness: the template resolved and the initialization in the send path
\* failed: the call raised the initialization error.
C26_Witness ==
    \E c \in Callers :
        /\ call[c].op = "sendTemplateEmail" /\ call[c].pc = "done"
        /\ call[c].tpl = "ok"
        /\ call[c].msg.subject = "Hi Ada"
        /\ call[c].out = "raised"

====
